---- MODULE Spec2Model ----
(***************************************************************************)
(* Model of website/src/app/v4/[[...slug]]/page.tsx: the module-level      *)
(* route table built from the v4 manifest, the async server component      *)
(* Page (resolve, fetch, compile, evaluate, render) and                    *)
(* generateStaticParams.                                                   *)
(*                                                                         *)
(* A JavaScript string is a sequence of one-character strings, so that     *)
(* Array.prototype.join and String.prototype.split are computed, not       *)
(* assumed.  A JavaScript value is a record [t, v]: t is "undef", "str",   *)
(* "fn" (a built-in function, v its name) or "obj" (a plain object); for a *)
(* string, v holds its characters.  Fixed pieces of text (the URL prefix,  *)
(* the manifest's owner) are written as one element.                       *)
(***************************************************************************)
EXTENDS Naturals, Sequences, FiniteSets, TLC

\* ---------------------------------------------------------------- bounds
\* Concurrent invocations of Page.
MaxRequests == 2
\* Longest filePaths list drawn for the route-table specification.
MaxFiles == 3

\* ------------------------------------------------------------ JS values
Undefined == [t |-> "undef", v |-> <<>>]
Str(s) == [t |-> "str", v |-> s]

Constructor == <<"c", "o", "n", "s", "t", "r", "u", "c", "t", "o", "r">>
Proto == <<"_", "_", "p", "r", "o", "t", "o", "_", "_">>

\* The member of Object.prototype named k: __proto__ reads as the prototype
\* object itself, constructor is the function Object, every other member a
\* built-in function of that name.  All are truthy.
InheritedMember(k) ==
    IF k = Proto THEN [t |-> "obj", v |-> <<>>]
    ELSE IF k = Constructor THEN [t |-> "fn", v |-> <<"O", "b", "j", "e", "c", "t">>]
    ELSE [t |-> "fn", v |-> k]

\* !x on the values that occur: undefined and '' are falsy.
Falsy(x) == x.t = "undef" \/ (x.t = "str" /\ x.v = <<>>)

\* Template-literal conversion `${x}`.
ToStr(x) ==
    IF x.t = "str" THEN x.v
    ELSE IF x.t = "fn" THEN << "function " >> \o x.v \o << "() { [native code] }" >>
    ELSE IF x.t = "obj" THEN << "[object Object]" >>
    ELSE << "u", "n", "d", "e", "f", "i", "n", "e", "d" >>

\* ---------------------------------------------------------- JS strings
Sep == "/"

RECURSIVE Join(_)
\* segs.join('/')
Join(segs) ==
    IF Len(segs) = 0 THEN <<>>
    ELSE IF Len(segs) = 1 THEN segs[1]
    ELSE segs[1] \o <<Sep>> \o Join(Tail(segs))

\* Index of the first separator in s, 0 when there is none.
FirstSep(s) ==
    IF \E i \in 1..Len(s) : s[i] = Sep
    THEN CHOOSE i \in 1..Len(s) : s[i] = Sep /\ \A j \in 1..(i-1) : s[j] # Sep
    ELSE 0

RECURSIVE Split(_)
\* str.split('/'): ''.split('/') is [''].
Split(s) ==
    IF FirstSep(s) = 0 THEN << s >>
    ELSE << SubSeq(s, 1, FirstSep(s) - 1) >> \o Split(SubSeq(s, FirstSep(s) + 1, Len(s)))

\* Own property names of Object.prototype, which every plain object inherits.
ObjectPrototypeKeys ==
    { Constructor,
      <<"_", "_", "d", "e", "f", "i", "n", "e", "G", "e", "t", "t", "e", "r", "_", "_">>,
      <<"_", "_", "d", "e", "f", "i", "n", "e", "S", "e", "t", "t", "e", "r", "_", "_">>,
      <<"h", "a", "s", "O", "w", "n", "P", "r", "o", "p", "e", "r", "t", "y">>,
      <<"_", "_", "l", "o", "o", "k", "u", "p", "G", "e", "t", "t", "e", "r", "_", "_">>,
      <<"_", "_", "l", "o", "o", "k", "u", "p", "S", "e", "t", "t", "e", "r", "_", "_">>,
      <<"i", "s", "P", "r", "o", "t", "o", "t", "y", "p", "e", "O", "f">>,
      <<"p", "r", "o", "p", "e", "r", "t", "y", "I", "s", "E", "n", "u", "m", "e", "r", "a", "b", "l", "e">>,
      <<"t", "o", "S", "t", "r", "i", "n", "g">>,
      <<"v", "a", "l", "u", "e", "O", "f">>,
      Proto,
      <<"t", "o", "L", "o", "c", "a", "l", "e", "S", "t", "r", "i", "n", "g">> }

\* An object with string values is the sequence of its own [key, value]
\* entries in insertion order, keys distinct.
OwnKeys(obj) == { obj[i].key : i \in 1..Len(obj) }

OwnValue(obj, k) == obj[CHOOSE i \in 1..Len(obj) : obj[i].key = k].value

\* obj[k]: the own property, else the one inherited from Object.prototype,
\* else undefined.
GetProperty(obj, k) ==
    IF k \in OwnKeys(obj) THEN Str(OwnValue(obj, k))
    ELSE IF k \in ObjectPrototypeKeys THEN InheritedMember(k)
    ELSE Undefined

Digits == << "0", "1", "2", "3", "4", "5", "6", "7", "8", "9" >>

IsDigit(c) == \E d \in 1..10 : Digits[d] = c

DigitValue(c) == (CHOOSE d \in 1..10 : Digits[d] = c) - 1

\* Order of two canonical decimal strings: the shorter is the smaller, and
\* of two of one length the one with the smaller digit where they first differ.
NumLess(a, b) ==
    \/ Len(a) < Len(b)
    \/ /\ Len(a) = Len(b)
       /\ \E i \in 1..Len(a) :
              /\ DigitValue(a[i]) < DigitValue(b[i])
              /\ \A j \in 1..(i-1) : a[j] = b[j]

\* 2^32 - 1, the first number that is no array index.
MaxIndexText == << "4", "2", "9", "4", "9", "6", "7", "2", "9", "5" >>

\* An integer-like key (an array index): canonical decimal below 2^32 - 1.
IsArrayIndex(k) ==
    /\ Len(k) >= 1
    /\ \A i \in 1..Len(k) : IsDigit(k[i])
    /\ (Len(k) > 1 => k[1] # "0")
    /\ NumLess(k, MaxIndexText)

RECURSIVE Ascending(_)
\* The integer-like keys of a set, in ascending numeric order.
Ascending(ks) ==
    IF ks = {} THEN <<>>
    ELSE LET least == CHOOSE k \in ks : \A o \in ks \ { k } : NumLess(k, o)
         IN  << least >> \o Ascending(ks \ { least })

\* Object.keys(obj): the integer-like own keys in ascending order, then the
\* other own keys in insertion order.
ObjectKeys(obj) ==
    Ascending({ k \in OwnKeys(obj) : IsArrayIndex(k) })
        \o SelectSeq([i \in 1..Len(obj) |-> obj[i].key], LAMBDA k : ~IsArrayIndex(k))

\* obj[k] = val
SetProperty(obj, k, val) ==
    IF k \in OwnKeys(obj)
    THEN [i \in 1..Len(obj) |-> IF obj[i].key = k THEN [key |-> k, value |-> val] ELSE obj[i]]
    ELSE Append(obj, [key |-> k, value |-> val])

\* ------------------------------------------------------------- manifest
P_index == <<"i", "n", "d", "e", "x", ".", "m", "d", "x">>
P_a == <<"a", ".", "m", "d", "x">>
P_ab == <<"a", "/", "b", ".", "m", "d", "x">>
P_aindex == <<"a", "/", "i", "n", "d", "e", "x", ".", "m", "d", "x">>
P_2 == <<"2", ".", "m", "d", "x">>
P_10 == <<"1", "0", ".", "m", "d", "x">>

\* Content files a manifest may list.  a.mdx and a/index.mdx name the same
\* route; nothing in the module keeps a manifest from listing both.
CandidatePaths == { P_index, P_a, P_aindex, P_ab, P_2, P_10 }

\* The manifest of the request-pipeline specification.
ManifestFilePaths == << P_index, P_a, P_ab >>

Json(paths) ==
    [ user |-> << "acme" >>, repo |-> << "docs" >>, branch |-> << "main" >>,
      docsPath |-> << "docs/" >>, filePaths |-> paths ]

\* Index of the last "." of s, 0 when there is none.
LastDot(s) ==
    IF \E i \in 1..Len(s) : s[i] = "."
    THEN CHOOSE i \in 1..Len(s) : s[i] = "." /\ \A j \in (i+1)..Len(s) : s[j] # "."
    ELSE 0

StripExt(s) == IF LastDot(s) = 0 THEN s ELSE SubSeq(s, 1, LastDot(s) - 1)

IndexName == <<"i", "n", "d", "e", "x">>

\* The route of a content file: its path without the extension, an index
\* file standing for its directory.
RouteOf(path) ==
    LET segs == Split(StripExt(path))
    IN  IF segs[Len(segs)] = IndexName
        THEN Join(SubSeq(segs, 1, Len(segs) - 1))
        ELSE Join(segs)

RECURSIVE BuildPagesSkipIndex(_, _)
\* Mutant of BuildPages: index files are left out of the route table.
BuildPagesSkipIndex(paths, acc) ==
    IF paths = <<>> THEN acc
    ELSE LET segs == Split(StripExt(Head(paths)))
         IN  IF segs[Len(segs)] = IndexName
             THEN BuildPagesSkipIndex(Tail(paths), acc)
             ELSE BuildPagesSkipIndex(Tail(paths),
                                      SetProperty(acc, RouteOf(Head(paths)), Head(paths)))

RECURSIVE BuildPages(_, _)
\* The route table of a manifest: each file is stored under its route, a
\* later file replacing an earlier one of the same route.
BuildPages(paths, acc) ==
    IF paths = <<>> THEN acc
    ELSE BuildPages(Tail(paths), SetProperty(acc, RouteOf(Head(paths)), Head(paths)))

\* Proper prefixes and the whole of a segment sequence: the tree nodes on
\* the way to a page.
Prefixes(segs) == { SubSeq(segs, 1, n) : n \in 1..Len(segs) }

\* basePath: 'v4'
BasePath == << "v", "4" >>

\* convertToPageMap({filePaths, basePath}): the route table, keyed by the
\* route below the base path, and the navigation tree (the set of its node
\* paths), whose one top-level node is the base-path folder.
ConvertToPageMap(paths, basePath) ==
    [ mdxPages |-> BuildPages(paths, <<>>),
      pageMap  |-> { << basePath >> } \cup
                   { << basePath >> \o p :
                       p \in UNION { Prefixes(Split(StripExt(paths[i]))) : i \in 1..Len(paths) } } ]

\* _pageMap[0].children: the nodes below the first top-level node, named
\* from there.  (With no top-level node the read throws and the module does
\* not load; every manifest drawn lists a file.)
FirstChildren(tree) ==
    LET top == CHOOSE n \in tree : Len(n) = 1
    IN  { Tail(n) : n \in { m \in tree : Len(m) > 1 /\ m[1] = top[1] } }

\* mergeMetaWithPageMap(v4Pages): every node gets its navigation metadata;
\* no metadata source is listed, so the inferred default (the node's name as
\* its title) stands and no node is dropped.
MergeMetaWithPageMap(nodes) ==
    { [path |-> n, title |-> n[Len(n)]] : n \in nodes }

\* normalizePageMap(yogaPageMap): every node gets its route, an index page
\* standing for its folder.
NormalizePageMap(items) ==
    { [path |-> it.path, title |-> it.title,
       route |-> IF it.path[Len(it.path)] = IndexName
                 THEN Join(SubSeq(it.path, 1, Len(it.path) - 1))
                 ELSE Join(it.path)] : it \in items }

\* Lines 21-31: mdxPages and the exported pageMap.
ModulePageMap(paths) ==
    NormalizePageMap(MergeMetaWithPageMap(
        FirstChildren(ConvertToPageMap(paths, BasePath).pageMap)))

\* The component registry: useMDXComponents(...) without its wrapper.
Components == { "PackageCmd", "CodegenCallout", "Callout", "Tab", "Tabs" }

\* ---------------------------------------------------------------- state
VARIABLES
    json,         \* the imported manifest v4.json
    mdxPages,     \* route table: route -> file path
    pageMap,      \* exported navigation tree
    components,   \* component registry handed to evaluate
    req,          \* the invocations of Page, by request
    staticParams  \* what generateStaticParams last returned

vars == << json, mdxPages, pageMap, components, req, staticParams >>

Requests == 1..MaxRequests

\* params.slug: undefined (no segment) or an array of strings.
NoSlug == [defined |-> FALSE, segs |-> <<>>]
Slug(segs) == [defined |-> TRUE, segs |-> segs]

\* Slugs the host may hand to Page.
Slugs ==
    { NoSlug, Slug(<<>>), Slug(<< <<>> >>), Slug(<< <<"a">> >>),
      Slug(<< <<"a">>, <<"b">> >>), Slug(<< <<"a", "/", "b">> >>),
      Slug(<< <<"2">> >>), Slug(<< <<"a">>, <<>> >>), Slug(<< <<"c">> >>),
      Slug(<< Constructor >>), Slug(<< Proto >>),
      Slug(<< <<"t", "o", "S", "t", "r", "i", "n", "g">> >>) }

\* Slugs requested in the request-pipeline specification.
RequestSlugs ==
    { Slug(<< <<"a">>, <<"b">> >>), Slug(<< <<"c">> >>), Slug(<< Constructor >>) }

\* HTTP statuses the remote source answers with.
Statuses == { 200, 404 }

IdleRequest ==
    [ pc |-> "idle", slug |-> NoSlug, route |-> <<>>, filePath |-> Undefined,
      url |-> <<>>, net |-> "none", status |-> 0,
      fetchCalls |-> 0, compileCalls |-> 0, evaluateCalls |-> 0,
      trace |-> <<>>, abandoned |-> FALSE, outcome |-> "none" ]

\* Module initialisation, lines 19-39.
InitOf(paths) ==
    /\ json = Json(paths)
    /\ mdxPages = ConvertToPageMap(paths, BasePath).mdxPages
    /\ pageMap = ModulePageMap(paths)
    /\ components = Components
    /\ req = [r \in Requests |-> IdleRequest]
    /\ staticParams = [returned |-> FALSE, value |-> <<>>]

Init == InitOf(ManifestFilePaths)

\* ----------------------------------------------------------------- Page
\* Mutant of PageRoute: the route keeps a leading separator.
PageRouteLeadingSlash(slug) == << Sep >> \o Join(IF slug.defined THEN slug.segs ELSE <<>>)

\* (params.slug || []).join('/')
PageRoute(slug) == Join(IF slug.defined THEN slug.segs ELSE <<>>)

\* const filePath = mdxPages[route]
PageFilePath(table, slug) == GetProperty(table, PageRoute(slug))

\* `https://raw.githubusercontent.com/${user}/${repo}/${branch}/${docsPath}${filePath}`
FetchUrl(j, filePath) ==
    << "https://raw.githubusercontent.com/" >> \o j.user \o <<"/">> \o j.repo \o <<"/">>
        \o j.branch \o <<"/">> \o j.docsPath \o ToStr(filePath)

Module == UNCHANGED << json, mdxPages, pageMap, components >>

\* Line 41-42: Page is invoked with the host's params and suspends on
\* `await props.params` before anything is resolved.
PageCall(r, slug) ==
    /\ req[r].pc = "idle"
    /\ req' = [req EXCEPT ![r] = [@ EXCEPT !.pc = "awaitParams", !.slug = slug]]
    /\ Module /\ UNCHANGED staticParams

\* props.params rejects: the exception leaves Page before the route is
\* resolved.
PageParamsReject(r) ==
    /\ req[r].pc = "awaitParams"
    /\ req' = [req EXCEPT ![r] = [@ EXCEPT !.pc = "done", !.outcome = "ParamsError"]]
    /\ Module /\ UNCHANGED staticParams

\* Mutant of PageParams: notFound() returns instead of throwing, so the fetch
\* is issued for an unresolved route as well.
PageParamsNoThrow(r) ==
    /\ req[r].pc = "awaitParams"
    /\ LET slug == req[r].slug
           filePath == PageFilePath(mdxPages, slug)
       IN  req' = [req EXCEPT ![r] =
               [@ EXCEPT !.pc = "awaitFetch", !.route = PageRoute(slug),
                          !.filePath = filePath, !.url = FetchUrl(json, filePath),
                          !.net = "inflight", !.fetchCalls = @ + 1,
                          !.trace = << "resolve", "fetch" >>,
                          !.outcome = IF Falsy(filePath) THEN "NotFound" ELSE "none"]]
    /\ Module /\ UNCHANGED staticParams

\* Lines 42-51: line 42 resumes with the params; the route is resolved, and
\* Page either leaves through notFound() (which throws) or issues the fetch
\* and suspends on it.
PageParams(r) ==
    /\ req[r].pc = "awaitParams"
    /\ LET slug == req[r].slug
           filePath == PageFilePath(mdxPages, slug)
       IN  req' = [req EXCEPT ![r] =
               IF Falsy(filePath)
               THEN [@ EXCEPT !.pc = "done", !.route = PageRoute(slug),
                               !.filePath = filePath, !.trace = << "resolve" >>,
                               !.outcome = "NotFound"]
               ELSE [@ EXCEPT !.pc = "awaitFetch", !.route = PageRoute(slug),
                               !.filePath = filePath, !.url = FetchUrl(json, filePath),
                               !.net = "inflight", !.fetchCalls = @ + 1,
                               !.trace = << "resolve", "fetch" >>]]
    /\ Module /\ UNCHANGED staticParams

\* Line 49 resumes with a Response of any status; line 52 calls
\* response.text() and suspends on it.  response.ok is not consulted.
FetchFulfil(r, st) ==
    /\ req[r].pc = "awaitFetch" /\ req[r].net = "inflight"
    /\ req' = [req EXCEPT ![r] = [@ EXCEPT !.pc = "awaitText", !.net = "responded",
                                            !.status = st]]
    /\ Module /\ UNCHANGED staticParams

\* The fetch promise rejects (network error): the exception leaves Page.
FetchReject(r) ==
    /\ req[r].pc = "awaitFetch" /\ req[r].net = "inflight"
    /\ req' = [req EXCEPT ![r] = [@ EXCEPT !.pc = "done", !.net = "failed",
                                            !.outcome = "FetchError"]]
    /\ Module /\ UNCHANGED staticParams

\* The remote source accepts the connection and never answers.  fetch is
\* called without a signal or a timeout, so nothing settles the promise.
FetchStall(r) ==
    /\ req[r].pc = "awaitFetch" /\ req[r].net = "inflight"
    /\ req' = [req EXCEPT ![r] = [@ EXCEPT !.net = "stalled"]]
    /\ Module /\ UNCHANGED staticParams

\* The client goes away while the fetch is pending.  Page holds no abort
\* signal: the invocation is left as it is.
Abandon(r) ==
    /\ req[r].pc = "awaitFetch" /\ ~req[r].abandoned
    /\ req' = [req EXCEPT ![r] = [@ EXCEPT !.abandoned = TRUE]]
    /\ Module /\ UNCHANGED staticParams

\* Line 52 resumes with the body; line 53 calls compileMdx and suspends.
TextFulfil(r) ==
    /\ req[r].pc = "awaitText"
    /\ req' = [req EXCEPT ![r] = [@ EXCEPT !.pc = "awaitCompile",
                                            !.compileCalls = @ + 1,
                                            !.trace = Append(@, "compile")]]
    /\ Module /\ UNCHANGED staticParams

\* Reading the body fails: the exception leaves Page.
TextReject(r) ==
    /\ req[r].pc = "awaitText"
    /\ req' = [req EXCEPT ![r] = [@ EXCEPT !.pc = "done", !.net = "failed",
                                            !.outcome = "FetchError"]]
    /\ Module /\ UNCHANGED staticParams

\* Line 53 resumes with rawJs; line 54 evaluates it against the components
\* and lines 56-61 return the element, or evaluate throws.
CompileFulfil(r, evaluateOk) ==
    /\ req[r].pc = "awaitCompile"
    /\ req' = [req EXCEPT ![r] =
           IF evaluateOk
           THEN [@ EXCEPT !.pc = "done", !.evaluateCalls = @ + 1,
                           !.trace = @ \o << "evaluate", "render" >>,
                           !.outcome = "Rendered"]
           ELSE [@ EXCEPT !.pc = "done", !.evaluateCalls = @ + 1,
                           !.trace = Append(@, "evaluate"),
                           !.outcome = "EvaluationError"]]
    /\ Module /\ UNCHANGED staticParams

\* compileMdx rejects: the exception leaves Page.
CompileReject(r) ==
    /\ req[r].pc = "awaitCompile"
    /\ req' = [req EXCEPT ![r] = [@ EXCEPT !.pc = "done", !.outcome = "CompileError"]]
    /\ Module /\ UNCHANGED staticParams

\* ------------------------------------------------- generateStaticParams
\* Mutant of StaticParamsOf: the slugs are taken from the file paths
\* (Object.values) instead of the routes.
StaticParamsOfValues(table) ==
    [i \in 1..Len(table) |-> [slug |-> Split(table[i].value)]]

\* Object.keys(table).map(route => ({ slug: route.split('/') }))
StaticParamsOf(table) ==
    [i \in 1..Len(table) |-> [slug |-> Split(ObjectKeys(table)[i])]]

\* Mutant of GenerateStaticParams: the enumeration consumes the route table.
GenerateStaticParamsConsuming ==
    /\ staticParams' = [returned |-> TRUE, value |-> StaticParamsOf(mdxPages)]
    /\ staticParams' # staticParams
    /\ mdxPages' = <<>>
    /\ UNCHANGED << json, pageMap, components, req >>

\* Lines 64-69.
GenerateStaticParams ==
    /\ staticParams' = [returned |-> TRUE, value |-> StaticParamsOf(mdxPages)]
    /\ staticParams' # staticParams
    /\ Module /\ UNCHANGED req

\* ------------------------------------------------------- specifications
Next ==
    \/ \E r \in Requests, slug \in RequestSlugs : PageCall(r, slug)
    \/ \E r \in Requests : PageParams(r)
    \/ \E r \in Requests : PageParamsReject(r)
    \/ \E r \in Requests, st \in Statuses : FetchFulfil(r, st)
    \/ \E r \in Requests : FetchReject(r)
    \/ \E r \in Requests : FetchStall(r)
    \/ \E r \in Requests : Abandon(r)
    \/ \E r \in Requests : TextFulfil(r)
    \/ \E r \in Requests : TextReject(r)
    \/ \E r \in Requests, ok \in BOOLEAN : CompileFulfil(r, ok)
    \/ \E r \in Requests : CompileReject(r)
    \/ GenerateStaticParams

Spec == Init /\ [][Next]_vars

\* Progress the runtime guarantees: the host settles the params, a settled
\* promise resumes its awaiter, and a fetch the remote source answers (or
\* refuses) settles.  A stalled fetch has no step left to take.
FairSpec ==
    /\ Spec
    /\ \A r \in Requests :
        /\ WF_vars(PageParams(r) \/ PageParamsReject(r))
        /\ WF_vars((\E st \in Statuses : FetchFulfil(r, st)) \/ FetchReject(r))
        /\ WF_vars(TextFulfil(r) \/ TextReject(r))
        /\ WF_vars((\E ok \in BOOLEAN : CompileFulfil(r, ok)) \/ CompileReject(r))

\* Route-table specification: the manifest is any list of candidate paths,
\* and one invocation of Page is handed any slug (those of
\* generateStaticParams included) and runs up to its fetch.
RECURSIVE ListsUpTo(_)
ListsUpTo(n) ==
    IF n = 0 THEN { <<>> }
    ELSE ListsUpTo(n - 1) \cup
         { Append(l, p) : l \in { m \in ListsUpTo(n - 1) : Len(m) = n - 1 }, p \in CandidatePaths }

ManifestLists == ListsUpTo(MaxFiles) \ { <<>> }

StaticSlugs == { Slug(staticParams.value[i].slug) : i \in 1..Len(staticParams.value) }

InitRoutes == \E paths \in ManifestLists : InitOf(paths)

NextRoutes ==
    \/ \E slug \in Slugs \cup StaticSlugs : PageCall(1, slug)
    \/ PageParams(1)
    \/ GenerateStaticParams

SpecRoutes == InitRoutes /\ [][NextRoutes]_vars

\* --------------------------------------------------------------- claims
Resolved(r) == req[r].trace # <<>>
Done(r) == req[r].pc = "done"
NonSuccess(r) == req[r].net = "responded" /\ req[r].status # 200
Seq2Set(q) == { q[i] : i \in 1..Len(q) }
Stages == << "resolve", "fetch", "compile", "evaluate", "render" >>

\* C1: a request whose retrieval completes with a non-success status never
\* reaches compileMdx and ends with the FetchError outcome.
C1_NonSuccessIsFetchError ==
    \A r \in Requests :
        NonSuccess(r) =>
            /\ req[r].compileCalls = 0
            /\ (Done(r) => req[r].outcome = "FetchError")

\* C2: route resolution is an exact lookup in the route table: the segments
\* of every listed file's route resolve to that file, and a request whose
\* joined slug is not a route of the table ends in NotFound.
C2_ExactLookup ==
    /\ \A i \in 1..Len(json.filePaths) :
           PageFilePath(mdxPages, Slug(Split(RouteOf(json.filePaths[i]))))
               = Str(json.filePaths[i])
    /\ \A r \in Requests :
           Resolved(r) =>
               IF PageRoute(req[r].slug) \in OwnKeys(mdxPages)
               THEN /\ req[r].filePath = Str(OwnValue(mdxPages, PageRoute(req[r].slug)))
                    /\ req[r].outcome # "NotFound"
               ELSE req[r].outcome = "NotFound"

\* The routes the distinct entries of a manifest name.
RoutesNamed(paths) == { RouteOf(p) : p \in Seq2Set(paths) }

C4_FailuresSurface ==
    \A r \in Requests :
        (Done(r) /\ Resolved(r)) =>
            /\ (Falsy(req[r].filePath) <=> req[r].outcome = "NotFound")
            /\ ((req[r].net = "failed" \/ NonSuccess(r)) => req[r].outcome = "FetchError")
            /\ (req[r].outcome = "Rendered" =>
                    /\ req[r].net = "responded" /\ req[r].status = 200
                    /\ req[r].trace = Stages)

\* C5: a request abandoned while its fetch is in flight never reaches
\* compileMdx or evaluate and never yields a rendered page.
C5_AbandonStopsPipeline ==
    \A r \in Requests :
        req[r].abandoned =>
            /\ req[r].compileCalls = 0
            /\ req[r].evaluateCalls = 0
            /\ req[r].outcome # "Rendered"

\* C6: a request whose remote source stalls still terminates, with the
\* FetchError outcome.
C6_StallTimesOut ==
    \A r \in Requests :
        (req[r].net = "stalled") ~> (Done(r) /\ req[r].outcome = "FetchError")

\* C7: an invocation issues at most one fetch, whatever its outcome; a
\* failed fetch (a rejected one, or one answered with a non-success status)
\* is not issued again and goes no further than the failure of the request.
C7_SingleFetchFailureSurfaces ==
    \A r \in Requests :
        /\ req[r].fetchCalls <= 1
        /\ (Resolved(r) /\ ~Falsy(req[r].filePath) => req[r].fetchCalls = 1)
        /\ ((req[r].net = "failed" \/ NonSuccess(r)) =>
                /\ req[r].pc \in { "awaitText", "done" }
                /\ (Done(r) => req[r].outcome = "FetchError"))

\* C8: the manifest, the route table, the page map and the component
\* registry keep the values module initialisation gave them.
C8_ModuleStateFrozen ==
    /\ json = Json(ManifestFilePaths)
    /\ mdxPages = ConvertToPageMap(ManifestFilePaths, BasePath).mdxPages
    /\ pageMap = ModulePageMap(ManifestFilePaths)
    /\ components = Components

\* Two requests interleaved at the fetch (one suspended on it, one already
\* past it) after generateStaticParams has run.
C8_Witness ==
    /\ staticParams.returned
    /\ \E r1, r2 \in Requests :
           /\ req[r1].pc = "awaitFetch"
           /\ req[r2].pc = "done" /\ req[r2].outcome = "Rendered"

\* True when p is an initial segment of q.
IsPrefix(p, q) == Len(p) <= Len(q) /\ SubSeq(q, 1, Len(p)) = p

\* C9: the stages of a request occur in the order resolve, fetch, compile,
\* evaluate, render, each after the previous one returned; an unresolved
\* route stops the request after resolve.
C9_StageOrder ==
    \A r \in Requests :
        /\ IsPrefix(req[r].trace, Stages)
        /\ (req[r].compileCalls > 0 => req[r].net = "responded")
        /\ (req[r].evaluateCalls > 0 => req[r].compileCalls = 1 /\ Done(r))
        /\ (req[r].outcome = "NotFound" =>
                /\ req[r].trace = << "resolve" >>
                /\ req[r].fetchCalls = 0
                /\ req[r].compileCalls = 0
                /\ req[r].evaluateCalls = 0)

\* One request went through all five stages, another stopped at NotFound.
C9_Witness ==
    \E r1, r2 \in Requests :
        /\ req[r1].trace = Stages
        /\ req[r2].outcome = "NotFound" /\ Done(r2)

\* C10: a slug returned by generateStaticParams, handed to Page, joins back
\* to the route it was split from and resolves to that route's file path.
C10_RoundTrip ==
    \A r \in Requests :
        \A i \in 1..Len(staticParams.value) :
            (Resolved(r) /\ req[r].slug = Slug(staticParams.value[i].slug)) =>
                /\ req[r].route = ObjectKeys(mdxPages)[i]
                /\ req[r].filePath = Str(OwnValue(mdxPages, ObjectKeys(mdxPages)[i]))
                /\ req[r].outcome # "NotFound"

\* The index route was enumerated as [''] and Page, handed that slug,
\* resolved it to the index file and issued the fetch.
C10_Witness ==
    /\ staticParams.returned
    /\ \E r \in Requests :
           /\ req[r].slug = Slug(<< <<>> >>)
           /\ req[r].slug \in StaticSlugs
           /\ req[r].route = <<>>
           /\ req[r].filePath = Str(P_index)
           /\ req[r].pc = "awaitFetch"

====
